---- MODULE Spec2Model ----
(***************************************************************************)
(* Model of azan_google_home.py: the day loop (main_loop), the daily       *)
(* scheduling (schedule_daily_prayers, schedule_test_time), the time       *)
(* parser (parse_time), the alert sequence (play_azan) and the job list of *)
(* the `schedule` library the script registers its jobs in.                *)
(*                                                                         *)
(* Time is an integer number of seconds since 00:00:00 of day 0.  A date   *)
(* is a day number.  A string is a sequence of one-character strings.      *)
(* Volume levels are in tenths (0.4 is 4, 1.0 is 10).  Network and device  *)
(* calls take no time; the sleeps take exactly their argument.             *)
(***************************************************************************)
EXTENDS Integers, Sequences, FiniteSets, TLC

(***************************************************************************)
(* Bounds of the exploration.                                              *)
(***************************************************************************)
\* last date the outer loop fetches; the loop stops after completing it
MaxDay == 1
\* most consecutive failed fetches before the provider answers
MaxFails == 2

(***************************************************************************)
(* Units of datetime and the script's numeric constants.                   *)
(***************************************************************************)
SecondsPerMinute == 60
SecondsPerHour == 3600
SecondsPerDay == 86400
\* AZAN_VOLUME = 1.0
AZAN_VOLUME == 10
\* time.sleep(3600) after a failed fetch
RetryDelay == 3600
\* time.sleep(30) in the polling loop
PollInterval == 30
\* time.sleep(2) between play_media and play
SettleDelay == 2
\* time.sleep(180) while the azan plays
HoldDuration == 180
\* datetime.timedelta(minutes=1)
AlertLeadMinutes == 1
\* datetime.timedelta(minutes=10)
ReminderLeadMinutes == 10

(***************************************************************************)
(* Strings.                                                                *)
(***************************************************************************)
Digits == <<"0", "1", "2", "3", "4", "5", "6", "7", "8", "9">>

IsDigit(c) == \E i \in 1..10 : Digits[i] = c

DigitVal(c) == (CHOOSE i \in 1..10 : Digits[i] = c) - 1

\* the characters str.strip() and int() treat as whitespace
IsSpace(c) == c \in {" ", "\t", "\n", "\r"}

\* s.split(sep)[0]: the text before the first sep
RECURSIVE BeforeFirst(_, _)
BeforeFirst(s, sep) ==
    IF s = <<>> \/ Head(s) = sep THEN <<>>
    ELSE <<Head(s)>> \o BeforeFirst(Tail(s), sep)

RECURSIVE LStrip(_)
LStrip(s) == IF s # <<>> /\ IsSpace(Head(s)) THEN LStrip(Tail(s)) ELSE s

RECURSIVE RStrip(_)
RStrip(s) ==
    IF s # <<>> /\ IsSpace(s[Len(s)]) THEN RStrip(SubSeq(s, 1, Len(s) - 1)) ELSE s

\* str.strip()
Strip(s) == RStrip(LStrip(s))

\* str.split(sep): always at least one part
RECURSIVE Split(_, _)
SplitAfter(s, sep, first) ==
    IF Len(first) = Len(s) THEN <<first>>
    ELSE <<first>> \o Split(SubSeq(s, Len(first) + 2, Len(s)), sep)

Split(s, sep) == SplitAfter(s, sep, BeforeFirst(s, sep))

RECURSIVE DigitsVal(_, _)
DigitsVal(s, acc) ==
    IF s = <<>> THEN acc ELSE DigitsVal(Tail(s), 10 * acc + DigitVal(Head(s)))

AllDigits(s) == s # <<>> /\ \A i \in 1..Len(s) : IsDigit(s[i])

\* int(s): surrounding whitespace and one sign are accepted, then digits only
\* (the underscores int() allows between digits are left out)
IntOfDigits(negative, body) ==
    IF ~AllDigits(body) THEN [ok |-> FALSE, val |-> 0]
    ELSE [ok |-> TRUE,
          val |-> IF negative THEN 0 - DigitsVal(body, 0) ELSE DigitsVal(body, 0)]

IntOfStripped(t) ==
    IF t # <<>> /\ Head(t) \in {"+", "-"} THEN IntOfDigits(Head(t) = "-", Tail(t))
    ELSE IntOfDigits(FALSE, t)

PyInt(s) == IntOfStripped(Strip(s))

ParseError == [ok |-> FALSE, hh |-> 0, mm |-> 0]

\* parse_time(t_str): ok is FALSE where the code raises ValueError
\* return int(hh_str), int(mm_str)
IntPair(h, m) ==
    IF h.ok /\ m.ok THEN [ok |-> TRUE, hh |-> h.val, mm |-> m.val] ELSE ParseError

\* hh_str, mm_str = base.split(":") that takes the first two of any more parts
UnpackTwoLoose(parts) ==
    IF Len(parts) < 2 THEN ParseError ELSE IntPair(PyInt(parts[1]), PyInt(parts[2]))

\* hh_str, mm_str = base.split(":")
UnpackTwo(parts) ==
    IF Len(parts) # 2 THEN ParseError ELSE IntPair(PyInt(parts[1]), PyInt(parts[2]))

parse_time(t_str) == UnpackTwo(Split(Strip(BeforeFirst(t_str, "(")), ":"))

\* two-digit zero-padded decimal, as %H and %M print it
Fmt2(n) == <<Digits[(n \div 10) + 1], Digits[(n % 10) + 1]>>

(***************************************************************************)
(* datetime.                                                               *)
(***************************************************************************)
\* datetime.datetime(y, m, d, hh, mm) raises ValueError outside these ranges
ValidTime(hh, mm) == hh \in 0..23 /\ mm \in 0..59

\* datetime.datetime(date.year, date.month, date.day, hh, mm)
DateTime(day, hh, mm) ==
    day * SecondsPerDay + hh * SecondsPerHour + mm * SecondsPerMinute

DateOf(t) == t \div SecondsPerDay

HourOf(t) == (t % SecondsPerDay) \div SecondsPerHour

MinuteOf(t) == (t % SecondsPerHour) \div SecondsPerMinute

\* dt.strftime("%H:%M")
StrfHM(t) == Fmt2(HourOf(t)) \o <<":">> \o Fmt2(MinuteOf(t))

(***************************************************************************)
(* The job list of the `schedule` library.  A job is a daily job at a time *)
(* of day; next_run is the instant of its next run.  The fields prayer,    *)
(* day and runs record what the job was registered for and how often its   *)
(* action has run.                                                         *)
(***************************************************************************)
\* Job.at("HH:MM"): the time of day the string denotes
AtParts(parts) == [hh |-> PyInt(parts[1]).val, mm |-> PyInt(parts[2]).val]

At(time_str) == AtParts(Split(time_str, ":"))

\* Job._schedule_next_run: the next occurrence of the time of day that is
\* strictly after now (today when at_time > now.time(), else tomorrow)
NextOccurrence(t, today) == IF today > t THEN today ELSE today + SecondsPerDay

NextRun(t, at) == NextOccurrence(t, DateTime(DateOf(t), at.hh, at.mm))

\* schedule.every().day.at(sch_time).do(action)
NewJob(at, t, kind, prayer, day) ==
    [kind |-> kind, prayer |-> prayer, day |-> day, at |-> at,
     next_run |-> NextRun(t, at), runs |-> 0]

EveryDayAtDo(js, sch_time, t, kind, prayer, day) ==
    Append(js, NewJob(At(sch_time), t, kind, prayer, day))

\* Job.should_run
ShouldRun(job, t) == t >= job.next_run

\* the indices of the jobs that should run, in list order
RECURSIVE RunnableFrom(_, _, _)
RunnableFrom(js, t, i) ==
    IF i > Len(js) THEN <<>>
    ELSE (IF ShouldRun(js[i], t) THEN <<i>> ELSE <<>>) \o RunnableFrom(js, t, i + 1)

\* insert index i into q (sorted by next_run) after every entry that is not
\* later: sorted() compares jobs by next_run and is stable
RECURSIVE InsertStable(_, _, _)
InsertStable(js, q, i) ==
    IF q = <<>> THEN <<i>>
    ELSE IF js[Head(q)].next_run <= js[i].next_run
         THEN <<Head(q)>> \o InsertStable(js, Tail(q), i)
         ELSE <<i>> \o q

RECURSIVE SortByNextRun(_, _)
SortByNextRun(js, q) ==
    IF q = <<>> THEN <<>>
    ELSE InsertStable(js, SortByNextRun(js, SubSeq(q, 1, Len(q) - 1)), q[Len(q)])

\* sorted(job for job in self.jobs if job.should_run) of run_pending
Runnable(js, t) == SortByNextRun(js, RunnableFrom(js, t, 1))

\* Job.run after the action returned at instant t: schedule the next run
Rescheduled(job, t) ==
    [job EXCEPT !.next_run = NextRun(t, job.at), !.runs = job.runs + 1]

(***************************************************************************)
(* schedule_daily_prayers and schedule_test_time.  The result has ok FALSE *)
(* where the code raises (parse_time or datetime.datetime), with the jobs  *)
(* registered up to that point.                                            *)
(***************************************************************************)
PrayerNames == <<"Fajr", "Dhuhr", "Asr", "Maghrib", "Isha">>

\* the 10-minute reminder of a prayer whose azan job has been registered
ScheduleReminder(date, prayer, ten_min_before, t, js) ==
    IF ten_min_before > t
    THEN EveryDayAtDo(js, StrfHM(ten_min_before), t, "reminder", prayer, date)
    ELSE js

\* the azan job one minute before the prayer, then its reminder
ScheduleAzan(date, prayer, dt_prayer, dt_one_min_early, t, js) ==
    IF dt_one_min_early > t
    THEN ScheduleReminder(date, prayer,
            dt_prayer - ReminderLeadMinutes * SecondsPerMinute, t,
            EveryDayAtDo(js, StrfHM(dt_one_min_early), t, "azan", prayer, date))
    ELSE js

ScheduleAt(date, prayer, dt_prayer, t, js) ==
    ScheduleAzan(date, prayer, dt_prayer,
                 dt_prayer - AlertLeadMinutes * SecondsPerMinute, t, js)

SchedulePrayerParsed(date, prayer, p, t, js) ==
    IF ~p.ok \/ ~ValidTime(p.hh, p.mm) THEN [ok |-> FALSE, jobs |-> js]
    ELSE [ok |-> TRUE, jobs |-> ScheduleAt(date, prayer, DateTime(date, p.hh, p.mm), t, js)]

\* the body of the for loop for one prayer
SchedulePrayer(date, prayer, t_str, t, js) ==
    SchedulePrayerParsed(date, prayer, parse_time(t_str), t, js)

RECURSIVE SchedulePrayersFrom(_, _, _, _, _)
ScheduleRest(k, date, times, t, r) ==
    IF r.ok THEN SchedulePrayersFrom(k + 1, date, times, t, r.jobs) ELSE r

SchedulePrayersFrom(k, date, times, t, js) ==
    IF k > Len(PrayerNames) THEN [ok |-> TRUE, jobs |-> js]
    ELSE ScheduleRest(k, date, times, t,
            SchedulePrayer(date, PrayerNames[k], times[PrayerNames[k]], t, js))

schedule_daily_prayers(date, times, t, js) == SchedulePrayersFrom(1, date, times, t, js)

ScheduleTestAt(date, dt_test, t, js) ==
    IF dt_test > t THEN EveryDayAtDo(js, StrfHM(dt_test), t, "azan", "TEST", date)
    ELSE js

ScheduleTestParsed(date, p, t, js) ==
    IF ~p.ok THEN [ok |-> TRUE, jobs |-> js]
    ELSE IF ~ValidTime(p.hh, p.mm) THEN [ok |-> FALSE, jobs |-> js]
    ELSE [ok |-> TRUE, jobs |-> ScheduleTestAt(date, DateTime(date, p.hh, p.mm), t, js)]

schedule_test_time(date, test_time_str, t, js) ==
    IF test_time_str = <<>> THEN [ok |-> TRUE, jobs |-> js]
    ELSE ScheduleTestParsed(date, parse_time(test_time_str), t, js)

(***************************************************************************)
(* The Daily Time Provider.  A response is what requests.get produces:     *)
(* sent FALSE when the call raises, the status code, whether the body is   *)
(* JSON, whether it holds data.timings, and the timings dictionary.        *)
(***************************************************************************)
\* the end-to-end example of the specification
TimingsA ==
    [Fajr    |-> <<"0", "5", ":", "1", "2">>,
     Dhuhr   |-> <<"1", "3", ":", "0", "5">>,
     Asr     |-> <<"1", "6", ":", "4", "0">>,
     Maghrib |-> <<"1", "9", ":", "5", "8">>,
     Isha    |-> <<"2", "1", ":", "2", "0">>]

\* annotated times, Isha five minutes later than in TimingsA
TimingsB ==
    [Fajr    |-> <<"0", "5", ":", "1", "0", " ", "(", "C", "E", "S", "T", ")">>,
     Dhuhr   |-> <<"1", "3", ":", "0", "5", " ", "(", "C", "E", "S", "T", ")">>,
     Asr     |-> <<"1", "6", ":", "4", "1", " ", "(", "C", "E", "S", "T", ")">>,
     Maghrib |-> <<"2", "0", ":", "0", "0", " ", "(", "C", "E", "S", "T", ")">>,
     Isha    |-> <<"2", "1", ":", "2", "5", " ", "(", "C", "E", "S", "T", ")">>]

\* TimingsA with an Asr string of three parts
TimingsBadAsr == [TimingsA EXCEPT !.Asr = <<"1", "6", ":", "4", "0", ":", "9", "9">>]

\* TimingsA with a Dhuhr hour out of range
TimingsBadHour == [TimingsA EXCEPT !.Dhuhr = <<"2", "5", ":", "0", "0">>]

\* a timings dictionary without the Isha key
TimingsNoIsha ==
    [Fajr    |-> TimingsA.Fajr, Dhuhr |-> TimingsA.Dhuhr,
     Asr     |-> TimingsA.Asr,  Maghrib |-> TimingsA.Maghrib]

NoTimes == [Fajr |-> <<>>, Dhuhr |-> <<>>, Asr |-> <<>>, Maghrib |-> <<>>, Isha |-> <<>>]

Response(sent, status, json, data, timings) ==
    [sent |-> sent, status |-> status, json |-> json, data |-> data,
     timings |-> timings]

GoodResponses ==
    {Response(TRUE, 200, TRUE, TRUE, t) :
        t \in {TimingsA, TimingsB, TimingsBadAsr, TimingsBadHour}}

BadResponses ==
    {Response(FALSE, 0, FALSE, FALSE, NoTimes),      \* network error
     Response(TRUE, 503, FALSE, FALSE, NoTimes),     \* non-200 status
     Response(TRUE, 200, FALSE, FALSE, NoTimes),     \* body is not JSON
     Response(TRUE, 200, TRUE, FALSE, NoTimes),      \* JSON without data.timings
     Response(TRUE, 200, TRUE, TRUE, TimingsNoIsha)} \* a prayer key is missing

Responses == GoodResponses \cup BadResponses

\* get_prayer_times_for_date: exc names the exception that escapes ("" when
\* none), none is TRUE when the function returns None
get_prayer_times_for_date(resp) ==
    IF ~resp.sent
    THEN [exc |-> "RequestException", none |-> FALSE, times |-> NoTimes]
    ELSE IF resp.status # 200
    THEN [exc |-> "", none |-> TRUE, times |-> NoTimes]
    ELSE IF ~resp.json
    THEN [exc |-> "JSONDecodeError", none |-> FALSE, times |-> NoTimes]
    ELSE IF ~resp.data
    THEN [exc |-> "", none |-> TRUE, times |-> NoTimes]
    ELSE IF \E k \in 1..Len(PrayerNames) : PrayerNames[k] \notin DOMAIN resp.timings
    THEN [exc |-> "KeyError", none |-> FALSE, times |-> NoTimes]
    ELSE [exc |-> "", none |-> FALSE,
          times |-> [n \in {PrayerNames[k] : k \in 1..Len(PrayerNames)} |->
                        resp.timings[n]]]

(***************************************************************************)
(* play_azan.  An outcome says what the device does during one call:       *)
(* disc is the result of connect_to_google_home ("raise", "absent" or      *)
(* "found"), status whether cast.status.volume_level can be read, setv     *)
(* whether the first set_volume succeeds, media which playback call raises *)
(* ("play_media", "play" or "none") and restore whether the last           *)
(* set_volume succeeds.  The result is the list of calls made, the device  *)
(* volume afterwards and the time the call took.                           *)
(***************************************************************************)
Outcome(disc, status, setv, media, restore) ==
    [disc |-> disc, status |-> status, setv |-> setv, media |-> media,
     restore |-> restore]

Outcomes ==
    {Outcome("raise", FALSE, FALSE, "none", FALSE),
     Outcome("absent", FALSE, FALSE, "none", FALSE),
     Outcome("found", FALSE, FALSE, "none", FALSE)}
    \cup {Outcome("found", TRUE, sv, md, rs) :
            sv \in BOOLEAN, md \in {"none", "play_media", "play"}, rs \in BOOLEAN}

Call(op, arg, ok) == [op |-> op, arg |-> arg, ok |-> ok]

\* the try block that plays the azan
PlayCalls(media) ==
    IF media = "play_media" THEN <<Call("play_media", 0, FALSE)>>
    ELSE <<Call("play_media", 0, TRUE), Call("sleep", SettleDelay, TRUE),
           Call("play", 0, media # "play")>>

\* the value restored at the end of play_azan
RestoreValueFull(original_volume) == AZAN_VOLUME

RestoreValue(original_volume) == original_volume

\* connect_to_google_home returned a device: play_azan goes on
FoundAlways(o) == TRUE

Found(o) == o.disc = "found"

\* play_azan from the volume snapshot on; original_volume is the snapshot
Alert(o, original_volume) ==
    [calls |-> <<Call("discover", 0, o.disc = "found"),
                 Call("get_volume", original_volume, TRUE),
                 Call("set_volume", AZAN_VOLUME, o.setv)>>
               \o PlayCalls(o.media)
               \o <<Call("sleep", HoldDuration, TRUE),
                    Call("set_volume", RestoreValue(original_volume), o.restore)>>,
     vol |-> IF o.restore THEN RestoreValue(original_volume)
             ELSE IF o.setv THEN AZAN_VOLUME ELSE original_volume,
     elapsed |-> (IF o.media = "play_media" THEN 0 ELSE SettleDelay) + HoldDuration]

play_azan(o, v) ==
    IF ~Found(o)
    THEN [calls |-> <<Call("discover", 0, o.disc = "found")>>, vol |-> v,
          elapsed |-> 0]
    ELSE IF ~o.status
    THEN [calls |-> <<Call("discover", 0, o.disc = "found"),
                      Call("get_volume", 0, FALSE)>>,
          vol |-> v, elapsed |-> 0]
    ELSE Alert(o, v)

(***************************************************************************)
(* The process: main_loop.                                                 *)
(***************************************************************************)
VARIABLES
    now,           \* datetime.datetime.now()
    current_day,   \* the date main_loop works on
    TEST_TIME,     \* the configured test time ("" is <<>>)
    pc,            \* where main_loop is
    error,         \* the exception that ended the process ("" while it runs)
    prayer_times,  \* the result of the last successful fetch
    dt_isha,       \* the instant the polling loop waits for
    jobs,          \* schedule's job list
    runq,          \* the jobs run_pending has still to run, as indices of jobs
    vol,           \* the device's volume level
    devlog,        \* the calls of the last play_azan of this run_pending
    fails,         \* fetches that returned None since the last good one
    done,          \* the dates whose polling loop has exited
    last_check,    \* the instant of the last test of the polling loop in this
                   \* cycle (the instant the loop was entered at, before it)
    passlog,       \* the play_azan calls of this run_pending: job, start, end
    t_str,         \* the argument of a call of parse_time on its own
    parsed         \* the result of that call

vars == <<now, current_day, TEST_TIME, pc, error, prayer_times, dt_isha, jobs,
          runq, vol, devlog, fails, done, last_check, passlog, t_str, parsed>>

\* the instant the process starts at and its TEST_TIME setting
Scenario(h, m, s, test) ==
    [now |-> DateTime(0, h, m) + s, test |-> test]

Scenarios ==
    {Scenario(4, 0, 0, <<>>),
     Scenario(19, 50, 10, <<"2", "1", ":", "1", "0">>),
     Scenario(21, 30, 10, <<>>),
     Scenario(21, 30, 10, <<"2", "3", ":", "0", "0">>),
     Scenario(21, 30, 10, <<"2", "5", ":", "0", "0">>),
     Scenario(23, 30, 10, <<"a", "b", "c">>),
     Scenario(21, 0, 0, <<"2", "1", ":", "1", "8">>),
     Scenario(21, 0, 0, <<"2", "1", ":", "1", "9">>)}

StartVolumes == {4}

\* datetime.date.today()
Today(t) == DateOf(t)

\* current_day += datetime.timedelta(days=1)
NextDayStuck(d) == d

NextDaySkip(d) == d + 2

NextDay(d) == d + 1

\* schedule.clear()
ClearKeep(js) == js

Clear(js) == <<>>

\* if now > dt_isha: break
IshaPassedNextDay(t, isha) == t > isha + SecondsPerDay

IshaPassed(t, isha) == t > isha

Init ==
    /\ \E sc \in Scenarios : now = sc.now /\ TEST_TIME = sc.test
    /\ current_day = Today(now)
    /\ pc = "fetch"
    /\ error = ""
    /\ prayer_times = NoTimes
    /\ dt_isha = 0
    /\ jobs = <<>>
    /\ runq = <<>>
    /\ vol \in StartVolumes
    /\ devlog = <<>>
    /\ fails = 0
    /\ done = {}
    /\ last_check = now
    /\ passlog = <<>>
    /\ t_str = <<>>
    /\ parsed = parse_time(t_str)

\* what main_loop does with the result r of get_prayer_times_for_date
Fetched(r) ==
    /\ r.none => fails < MaxFails
    /\ IF r.exc # ""
       THEN /\ pc' = "crashed"
            /\ error' = r.exc
            /\ UNCHANGED <<prayer_times, fails>>
       ELSE IF r.none
       THEN /\ pc' = "backoff"
            /\ fails' = fails + 1
            /\ UNCHANGED <<prayer_times, error>>
       ELSE /\ pc' = "schedule"
            /\ prayer_times' = r.times
            /\ fails' = 0
            /\ UNCHANGED error

\* schedule.clear(), get_prayer_times_for_date and the test of its result
Fetch ==
    /\ pc = "fetch"
    /\ current_day <= MaxDay
    /\ jobs' = Clear(jobs)
    /\ \E resp \in Responses : Fetched(get_prayer_times_for_date(resp))
    /\ UNCHANGED <<now, current_day, TEST_TIME, dt_isha, runq, vol, devlog, done,
                   last_check, passlog, t_str, parsed>>

\* time.sleep(3600); continue
Backoff ==
    /\ pc = "backoff"
    /\ now' = now + RetryDelay
    /\ pc' = "fetch"
    /\ UNCHANGED <<current_day, TEST_TIME, error, prayer_times, dt_isha, jobs,
                   runq, vol, devlog, fails, done, last_check, passlog, t_str,
                   parsed>>

\* dt_isha = datetime.datetime(..., isha_hh, isha_mm)
IshaInstant(date, isha) == DateTime(date, isha.hh, isha.mm)

\* main_loop after schedule_test_time returned r2 (or raised)
TestScheduled(r2) ==
    /\ jobs' = r2.jobs
    /\ IF r2.ok
       THEN /\ dt_isha' = IshaInstant(current_day, parse_time(prayer_times["Isha"]))
            /\ pc' = "poll"
            /\ UNCHANGED error
       ELSE /\ pc' = "crashed"
            /\ error' = "ValueError(TEST_TIME)"
            /\ UNCHANGED dt_isha

\* main_loop after schedule_daily_prayers returned r1 (or raised)
Scheduled(r1) ==
    IF r1.ok
    THEN TestScheduled(schedule_test_time(current_day, TEST_TIME, now, r1.jobs))
    ELSE /\ jobs' = r1.jobs
         /\ pc' = "crashed"
         /\ error' = "ValueError"
         /\ UNCHANGED dt_isha

\* schedule_daily_prayers, schedule_test_time and the computation of dt_isha
Schedule ==
    /\ pc = "schedule"
    /\ Scheduled(schedule_daily_prayers(current_day, prayer_times, now, jobs))
    /\ last_check' = now
    /\ UNCHANGED <<now, current_day, TEST_TIME, prayer_times, runq, vol, devlog,
                   fails, done, passlog, t_str, parsed>>

\* the test at the top of the polling loop, and the start of run_pending
Poll ==
    /\ pc = "poll"
    /\ IF IshaPassed(now, dt_isha)
       THEN /\ pc' = "advance"
            /\ UNCHANGED <<runq, devlog, passlog>>
       ELSE /\ pc' = "run"
            /\ runq' = Runnable(jobs, now)
            /\ devlog' = <<>>
            /\ passlog' = <<>>
    /\ last_check' = now
    /\ UNCHANGED <<now, current_day, TEST_TIME, error, prayer_times, dt_isha, jobs,
                   vol, fails, done, t_str, parsed>>

\* job i runs reminder_closure, which only prints
RunReminder(i) ==
    /\ jobs' = [jobs EXCEPT ![i] = Rescheduled(jobs[i], now)]
    /\ UNCHANGED <<now, vol, devlog, passlog>>

\* job i runs play_azan in a thread of its own: run_pending does not wait
RunAzanDetached(i, r) ==
    /\ now' = now
    /\ vol' = r.vol
    /\ devlog' = r.calls
    /\ passlog' = Append(passlog, [job |-> i, start |-> now,
                                   end |-> now + r.elapsed, calls |-> r.calls])
    /\ jobs' = [jobs EXCEPT ![i] = Rescheduled(jobs[i], now')]

\* job i runs play_azan, with result r; run_pending goes on when it returns
RunAzan(i, r) ==
    /\ now' = now + r.elapsed
    /\ vol' = r.vol
    /\ devlog' = r.calls
    /\ passlog' = Append(passlog, [job |-> i, start |-> now,
                                   end |-> now + r.elapsed, calls |-> r.calls])
    /\ jobs' = [jobs EXCEPT ![i] = Rescheduled(jobs[i], now')]

\* run_pending runs its next job: the reminder closure or play_azan
RunJob ==
    /\ pc = "run"
    /\ runq # <<>>
    /\ IF jobs[Head(runq)].kind = "reminder"
       THEN RunReminder(Head(runq))
       ELSE \E o \in Outcomes : RunAzan(Head(runq), play_azan(o, vol))
    /\ runq' = Tail(runq)
    /\ UNCHANGED <<current_day, TEST_TIME, pc, error, prayer_times, dt_isha, fails,
                   done, last_check, t_str, parsed>>

\* the instant time.sleep(30) returns at when called at t
AfterSleepMinute(t) == t + SecondsPerMinute

AfterSleep(t) == t + PollInterval

\* run_pending has returned: time.sleep(30)
Sleep ==
    /\ pc = "run"
    /\ runq = <<>>
    /\ now' = AfterSleep(now)
    /\ pc' = "poll"
    /\ UNCHANGED <<current_day, TEST_TIME, error, prayer_times, dt_isha, jobs, runq,
                   vol, devlog, fails, done, last_check, passlog, t_str, parsed>>

\* current_day += datetime.timedelta(days=1), back to the top of the loop
Advance ==
    /\ pc = "advance"
    /\ current_day' = NextDay(current_day)
    /\ done' = done \cup {current_day}
    /\ pc' = "fetch"
    /\ UNCHANGED <<now, TEST_TIME, error, prayer_times, dt_isha, jobs, runq, vol,
                   devlog, fails, last_check, passlog, t_str, parsed>>

Next == Fetch \/ Backoff \/ Schedule \/ Poll \/ RunJob \/ Sleep \/ Advance

Spec == Init /\ [][Next]_vars

(***************************************************************************)
(* parse_time on its own: one call, on a string drawn from the inputs      *)
(* below; the rest of the state stands still.                              *)
(***************************************************************************)
ParseHours == {0, 5, 9, 10, 20, 23}

ParseMinutes == {0, 7, 30, 59}

\* what may follow the time of day: nothing, or whitespace and an annotation
Annotations ==
    {<<>>,
     <<" ", "(", "C", "E", "S", "T", ")">>,
     <<"(", "+", "0", "3", ")">>,
     <<" ", "(", "a", ":", "b", ")">>,
     <<" ", "(", "(", "x", ")">>,
     <<" ", " ", "(">>,
     <<"\t", "(", "E", "E", "T", ")", " ", "1", ":", "2">>,
     <<" ", "(", ")">>}

\* "H:MM" when short and hh < 10, "HH:MM" otherwise
ShowHM(hh, mm, short) ==
    (IF short /\ hh < 10 THEN <<Digits[hh + 1]>> ELSE Fmt2(hh)) \o <<":">> \o Fmt2(mm)

WellFormedStrings ==
    {ShowHM(hh, mm, short) \o a :
        hh \in ParseHours, mm \in ParseMinutes, short \in BOOLEAN, a \in Annotations}

\* strings whose text before the first "(" is not two integers around one ":"
MalformedStrings ==
    {<<"2", "0", ":", "3", "0", ":", "9", "9">>,
     <<"a", "b", "c">>,
     <<>>,
     <<"2", "0", "3", "0">>,
     <<"2", "0", ":">>,
     <<":", "3", "0">>,
     <<"2", "0", ":", "3", "x">>,
     <<"(", "2", "0", ":", "3", "0", ")">>,
     <<"2", "0", ":", "3", "0", ":", "9", "9", " ", "(", "C", "E", "S", "T", ")">>,
     <<"a", ":", "b">>,
     <<"2", "0", " ", "3", "0">>,
     <<"2", " ", "0", ":", "3", "0">>,
     <<"2", "0", ":", ":", "3", "0">>,
     <<"2", "0", ":", "3", "0", " ", "C", "E", "S", "T">>}

ParseInputs == WellFormedStrings \cup MalformedStrings

InitParse ==
    /\ t_str \in ParseInputs
    /\ parsed = ParseError
    /\ pc = "parse_time"
    /\ now = 0
    /\ current_day = 0
    /\ TEST_TIME = <<>>
    /\ error = ""
    /\ prayer_times = NoTimes
    /\ dt_isha = 0
    /\ jobs = <<>>
    /\ runq = <<>>
    /\ vol \in StartVolumes
    /\ devlog = <<>>
    /\ fails = 0
    /\ done = {}
    /\ last_check = 0
    /\ passlog = <<>>

\* the call parse_time(t_str): it returns a pair, or raises (ok FALSE)
ParseTime ==
    /\ pc = "parse_time"
    /\ parsed' = parse_time(t_str)
    /\ pc' = "returned"
    /\ UNCHANGED <<now, current_day, TEST_TIME, error, prayer_times, dt_isha, jobs,
                   runq, vol, devlog, fails, done, last_check, passlog, t_str>>

NextParse == ParseTime

SpecParse == InitParse /\ [][NextParse]_vars

(***************************************************************************)
(* Properties.                                                             *)
(***************************************************************************)
\* C1: day rollover.  The polling loop exits only when now is after the
\* Isha instant of current_day; the exit is followed by current_day + 1 and
\* the top of the loop; current_day changes at no other step; and no date
\* whose polling loop has exited is fetched, scheduled or polled again.
C1_DayRollover ==
    [][/\ (pc = "poll" /\ pc' = "advance") => now > dt_isha
       /\ pc = "advance" => (pc' = "fetch" /\ current_day' = current_day + 1)
       /\ current_day' # current_day => pc = "advance"
       /\ (pc' \in {"fetch", "backoff", "schedule", "poll", "run"})
             => current_day' \notin done']_vars

\* a second cycle has started after the first date was completed
C1_Witness == pc = "schedule" /\ current_day = 1 /\ done = {0}

\* C2: provider failure retry.  While the controller waits after a failed
\* fetch no job is registered; the wait is followed by a fetch for the same
\* current_day; a fetch that fails leaves current_day unchanged.
C2_RetrySameDate ==
    /\ [](pc = "backoff" => (jobs = <<>> /\ runq = <<>>))
    /\ [][/\ pc = "backoff" =>
                (pc' = "fetch" /\ current_day' = current_day /\ jobs' = <<>>
                 /\ now' = now + RetryDelay)
          /\ (pc = "fetch" /\ pc' = "backoff") =>
                (current_day' = current_day /\ fails' = fails + 1)]_vars

\* the second consecutive failed fetch of the second date, with jobs of the
\* first date having been registered before
C2_Witness == pc = "backoff" /\ fails = 2 /\ current_day = 1 /\ done = {0}

\* C3: no provider failure is fatal: the process never ends with an
\* exception raised while fetching the prayer times.
C3_NoProviderFailureFatal ==
    error \notin {"RequestException", "JSONDecodeError", "KeyError"}

HasSnapshot(log) == \E i \in 1..Len(log) : log[i].op = "get_volume" /\ log[i].ok

Snapshot(log) == log[CHOOSE i \in 1..Len(log) : log[i].op = "get_volume"].arg

AllOk(log) == \A i \in 1..Len(log) : log[i].ok

\* C4: alert restoration.  In an execution of play_azan that captured the
\* volume, the last call is a set_volume with the captured value, made right
\* after the hold, and no other set_volume follows it; when every call of
\* the execution succeeds the device volume is what it was before.
C4_AlertRestoration ==
    /\ [](HasSnapshot(devlog) =>
            /\ Len(devlog) >= 2
            /\ devlog[Len(devlog)].op = "set_volume"
            /\ devlog[Len(devlog)].arg = Snapshot(devlog)
            /\ devlog[Len(devlog) - 1] = Call("sleep", HoldDuration, TRUE))
    /\ [][(pc = "run" /\ runq # <<>> /\ HasSnapshot(devlog') /\ AllOk(devlog'))
             => (vol' = vol /\ vol' = Snapshot(devlog'))]_vars

\* an execution in which raising the volume and starting playback failed,
\* and the restore was made with the captured value
C4_Witness ==
    /\ HasSnapshot(devlog)
    /\ \E i \in 1..Len(devlog) :
          devlog[i] = Call("set_volume", AZAN_VOLUME, FALSE)
    /\ \E i \in 1..Len(devlog) : devlog[i] = Call("play_media", 0, FALSE)
    /\ devlog[Len(devlog)] = Call("set_volume", 4, TRUE)
    /\ vol = 4

\* C5: a malformed prayer time string does not end the process.
C5_MalformedTimeSkipped == error # "ValueError"

PrayerSet == {PrayerNames[k] : k \in 1..Len(PrayerNames)}

\* the instant of a prayer of a date
InstantOf(date, p) == DateTime(date, p.hh, p.mm)

PrayerInstant(date, times, n) == InstantOf(date, parse_time(times[n]))

\* the events the specification's buildDailyEvents yields
ExpectedEvents(date, times, t) ==
    {[kind |-> "azan", prayer |-> n,
      at |-> PrayerInstant(date, times, n) - 1 * SecondsPerMinute] :
        n \in {m \in PrayerSet :
                 PrayerInstant(date, times, m) - 1 * SecondsPerMinute > t}}
    \cup
    {[kind |-> "reminder", prayer |-> n,
      at |-> PrayerInstant(date, times, n) - 10 * SecondsPerMinute] :
        n \in {m \in PrayerSet :
                 PrayerInstant(date, times, m) - 10 * SecondsPerMinute > t}}

PrayerJobs(js) == {i \in 1..Len(js) : js[i].prayer # "TEST"}

\* the registered prayer events with the instant each will fire at
ScheduledEvents(js) ==
    {[kind |-> js[i].kind, prayer |-> js[i].prayer, at |-> js[i].next_run] :
        i \in PrayerJobs(js)}

\* C6: the events registered by one scheduling are exactly one alert at
\* (prayer instant - 1 minute) for each prayer for which that instant is
\* after now, and one reminder at (prayer instant - 10 minutes) for each
\* prayer for which that instant is after now.
C6_BuildDailyEvents ==
    [][(pc = "schedule" /\ pc' = "poll") =>
          /\ ScheduledEvents(jobs') = ExpectedEvents(current_day, prayer_times, now)
          /\ Cardinality(PrayerJobs(jobs')) =
                Cardinality(ExpectedEvents(current_day, prayer_times, now))]_vars

\* C7: no registered job's action runs more than once in a cycle, and every
\* registered job was registered for current_day.
C7_FiredAtMostOnce ==
    \A i \in 1..Len(jobs) :
        /\ jobs[i].runs <= 1
        /\ pc \in {"poll", "run"} => jobs[i].day = current_day

\* C8: when connect_to_google_home yields no device, play_azan makes no
\* device call, takes no time, leaves the volume alone and returns to
\* run_pending, which goes on with the other jobs unchanged.
C8_DeviceNotFound ==
    [][(pc = "run" /\ runq # <<>> /\ jobs[Head(runq)].kind = "azan"
        /\ devlog' # <<>> /\ ~devlog'[1].ok) =>
          /\ devlog' = <<Call("discover", 0, FALSE)>>
          /\ vol' = vol
          /\ now' = now
          /\ pc' = "run"
          /\ error' = ""
          /\ runq' = Tail(runq)
          /\ Len(jobs') = Len(jobs)
          /\ \A j \in 1..Len(jobs) : j # Head(runq) => jobs'[j] = jobs[j]]_vars

\* the polling loop is at its next check after an alert found no device
C8_Witness ==
    /\ pc = "poll"
    /\ devlog = <<Call("discover", 0, FALSE)>>
    /\ \E i \in 1..Len(jobs) : jobs[i].runs = 0
    /\ \E i \in 1..Len(jobs) : jobs[i].runs = 1 /\ jobs[i].kind = "azan"

\* C9: start after Isha.  A scheduling made when now is past the Isha
\* instant of current_day registers no alert for a prayer; the polling loop
\* then exits at its first check, with no time passed and no job run; and
\* current_day becomes the next day.
C9_StartAfterIsha ==
    [][/\ (pc = "schedule" /\ pc' = "poll" /\ now > dt_isha') =>
             (/\ \A i \in 1..Len(jobs') : jobs'[i].prayer = "TEST"
              /\ now' = now)
       /\ (pc = "poll" /\ now > dt_isha) =>
             (pc' = "advance" /\ now' = now /\ jobs' = jobs /\ devlog' = devlog)
       /\ pc = "advance" =>
             (current_day' = current_day + 1 /\ now' = now /\ jobs' = jobs)]_vars

\* the process started at 21:30:10 of day 0 with a test time of 23:00: only
\* the test alert was registered, and the process is in its second cycle at
\* the instant it started at
C9_Witness ==
    /\ current_day = 1
    /\ now = DateTime(0, 21, 30) + 10
    /\ pc = "fetch"
    /\ fails = 0
    /\ done = {0}
    /\ Len(jobs) = 1
    /\ jobs[1].prayer = "TEST"
    /\ jobs[1].runs = 0

\* C10: of two jobs that run_pending runs and that have the same fire
\* instant, an alert is never run after a reminder, and two of the same kind
\* run in the order they were registered in.
C10_TieBreak ==
    \A a, b \in 1..Len(runq) :
        (a < b /\ jobs[runq[a]].next_run = jobs[runq[b]].next_run) =>
            /\ ~(jobs[runq[a]].kind = "reminder" /\ jobs[runq[b]].kind = "azan")
            /\ jobs[runq[a]].kind = jobs[runq[b]].kind => runq[a] < runq[b]

TestJobs(js) == {i \in 1..Len(js) : js[i].prayer = "TEST"}

\* the registered test events with the instant each will fire at
TestEvents(js) ==
    {[kind |-> js[i].kind, at |-> js[i].next_run] : i \in TestJobs(js)}

\* the test event the specification asks for: one alert at (date, test time)
\* when the setting holds a time of day and that instant is after t
ExpectedTestAt(date, p, t) ==
    IF p.ok /\ ValidTime(p.hh, p.mm) /\ DateTime(date, p.hh, p.mm) > t
    THEN {[kind |-> "azan", at |-> DateTime(date, p.hh, p.mm)]}
    ELSE {}

ExpectedTest(date, test, t) ==
    IF test = <<>> THEN {} ELSE ExpectedTestAt(date, parse_time(test), t)

\* C11: a scheduling whose prayer times are well formed does not end the
\* process whatever the test time setting holds; it registers exactly one
\* extra alert, firing at (current_day, test time), when the setting holds a
\* time of day and that instant is after now, and no extra job when the
\* setting is empty, malformed, out of range or already passed; and the
\* prayer events are those registered without a test time.
C11_TestTimeEvent ==
    [][(pc = "schedule" /\ error' # "ValueError") =>
          /\ pc' = "poll"
          /\ TestEvents(jobs') = ExpectedTest(current_day, TEST_TIME, now)
          /\ Cardinality(TestJobs(jobs')) =
                Cardinality(ExpectedTest(current_day, TEST_TIME, now))
          /\ ScheduledEvents(jobs') =
                ScheduledEvents(schedule_daily_prayers(current_day, prayer_times,
                                                       now, <<>>).jobs)]_vars

\* the job list after one scheduling step of main_loop: schedule.clear(),
\* then the prayer events, then the test event
SchedulingStep(date, times, test, t, js) ==
    schedule_test_time(date, test, t,
                       schedule_daily_prayers(date, times, t, Clear(js)).jobs).jobs

SameEvent(a, b) ==
    a.kind = b.kind /\ a.prayer = b.prayer /\ a.next_run = b.next_run

\* C12: scheduling is idempotent.  The job list a scheduling leaves is the
\* one the scheduling step yields, holds no event twice, and the scheduling
\* step made once more, with the same date, prayer times, test time and now,
\* yields that same job list.
C12_SchedulingIdempotent ==
    [][(pc = "schedule" /\ pc' = "poll") =>
          /\ jobs' = SchedulingStep(current_day, prayer_times, TEST_TIME, now, jobs)
          /\ SchedulingStep(current_day, prayer_times, TEST_TIME, now, jobs') = jobs'
          /\ \A i, j \in 1..Len(jobs') :
                SameEvent(jobs'[i], jobs'[j]) => i = j]_vars

\* the schedule of day 1 was made on the evening of day 0, after the jobs of
\* day 0 ran: ten jobs, none run yet, and scheduling again changes nothing
C12_Witness ==
    /\ pc = "poll"
    /\ current_day = 1
    /\ Today(now) = 0
    /\ done = {0}
    /\ Len(jobs) = 10
    /\ \A i \in 1..Len(jobs) : jobs[i].runs = 0
    /\ SchedulingStep(current_day, prayer_times, TEST_TIME, now, jobs) = jobs

\* C13: parse_time returns (hour, minute) for every "H:MM" or "HH:MM" with
\* hour in 0..23 and minute in 0..59, whether or not whitespace and a
\* parenthesized annotation follow it, and fails for every string whose text
\* before the first "(" is not two integers around one ":".
C13_TimeParser ==
    pc = "returned" =>
        /\ \A hh \in ParseHours, mm \in ParseMinutes, short \in BOOLEAN,
              a \in Annotations :
                t_str = ShowHM(hh, mm, short) \o a =>
                    parsed = [ok |-> TRUE, hh |-> hh, mm |-> mm]
        /\ t_str \in MalformedStrings => ~parsed.ok

\* parse_time has returned (5, 7) for "5:07 (CEST)"
C13_Witness ==
    /\ pc = "returned"
    /\ t_str = <<"5", ":", "0", "7", " ", "(", "C", "E", "S", "T", ")">>
    /\ parsed = [ok |-> TRUE, hh |-> 5, mm |-> 7]

\* the instant (date, time of day) an event was registered for
FireInstant(job) == DateTime(job.day, job.at.hh, job.at.mm)

\* C14: no event fires before its fire instant.  Every job run_pending runs
\* is run at or after (the date it was registered for, its time of day); a
\* job registered for date D on the evening of D - 1 does not run on D - 1.
C14_NoEarlyFire ==
    pc = "run" => \A k \in 1..Len(runq) : now >= FireInstant(jobs[runq[k]])

\* C15: alert step containment.  In an execution of play_azan that resolved
\* the device, the volume snapshot, the raise of the volume, the start of
\* playback, the hold and the restore are all attempted, in that order,
\* whichever of the snapshot, the raise and the playback failed.
C15_StepContainment ==
    (devlog # <<>> /\ devlog[1] = Call("discover", 0, TRUE)) =>
        /\ Len(devlog) >= 6
        /\ devlog[2].op = "get_volume"
        /\ devlog[3].op = "set_volume" /\ devlog[3].arg = AZAN_VOLUME
        /\ devlog[4].op = "play_media"
        /\ devlog[Len(devlog) - 1] = Call("sleep", HoldDuration, TRUE)
        /\ devlog[Len(devlog)].op = "set_volume"

\* C16: no scheduled alert is lost.  When the polling loop of current_day
\* has exited, every job registered for current_day whose fire instant is
\* not later than the Isha instant has been run.
C16_NoAlertLost ==
    pc = "advance" =>
        \A i \in 1..Len(jobs) :
            (jobs[i].day = current_day /\ FireInstant(jobs[i]) <= dt_isha) =>
                jobs[i].runs >= 1

\* C17: bounded polling latency, as claimed.  Two consecutive checks of the
\* polling loop are never more than one polling interval apart, and a loop
\* entered before the Isha instant exits within one polling interval of it.
C17_PollingLatency ==
    [][pc = "poll" =>
          /\ now - last_check <= PollInterval
          /\ (pc' = "advance" /\ last_check <= dt_isha) =>
                now - dt_isha <= PollInterval]_vars

\* the time the play_azan calls of a run_pending took
RECURSIVE PassTime(_)
PassTime(log) ==
    IF log = <<>> THEN 0 ELSE (Head(log).end - Head(log).start) + PassTime(Tail(log))

\* C17, amended: a check of the polling loop comes exactly one polling
\* interval plus the time of the alerts run since the check before it after
\* that check (the first check of a cycle comes at once); an alert takes at
\* most SettleDelay + HoldDuration; and a loop entered before the Isha
\* instant exits no longer than one polling interval plus the time of the
\* alerts of its last run_pending after it.
C17_PollingLatencyWithAlerts ==
    [][pc = "poll" =>
          /\ \/ now = last_check
             \/ now - last_check = PollInterval + PassTime(passlog)
          /\ \A k \in 1..Len(passlog) :
                passlog[k].end - passlog[k].start <= SettleDelay + HoldDuration
          /\ (pc' = "advance" /\ last_check <= dt_isha) =>
                now - dt_isha <= PollInterval + PassTime(passlog)]_vars

\* a check made 212 s after the one before it: an alert ran in between
C17_Witness ==
    /\ pc = "poll"
    /\ Len(passlog) = 1
    /\ now - last_check = PollInterval + SettleDelay + HoldDuration
    /\ now <= dt_isha

\* C18: at most one alert is in flight.  Of the play_azan calls of one
\* run_pending, each starts when the one before it has returned, so none
\* reads or sets the volume between another's snapshot and restore; each
\* restores the value it captured itself; and a call that follows one whose
\* device calls all succeeded captures the same volume, not the raised one.
C18_OneAlertInFlight ==
    /\ \A k \in 1..Len(passlog) :
          HasSnapshot(passlog[k].calls) =>
              /\ passlog[k].calls[Len(passlog[k].calls)].op = "set_volume"
              /\ passlog[k].calls[Len(passlog[k].calls)].arg =
                    Snapshot(passlog[k].calls)
    /\ \A k \in 1..(Len(passlog) - 1) :
          /\ passlog[k + 1].start >= passlog[k].end
          /\ (AllOk(passlog[k].calls) /\ HasSnapshot(passlog[k].calls)
              /\ HasSnapshot(passlog[k + 1].calls)) =>
                Snapshot(passlog[k + 1].calls) = Snapshot(passlog[k].calls)

\* a prayer alert and the test alert were due at the same check: the second
\* ran when the first had returned, and the volume is what it was
C18_Witness ==
    /\ Len(passlog) = 2
    /\ jobs[passlog[1].job].prayer = "Isha"
    /\ jobs[passlog[2].job].prayer = "TEST"
    /\ AllOk(passlog[1].calls) /\ HasSnapshot(passlog[1].calls)
    /\ AllOk(passlog[2].calls) /\ HasSnapshot(passlog[2].calls)
    /\ passlog[1].end - passlog[1].start = SettleDelay + HoldDuration
    /\ passlog[2].start = passlog[1].end
    /\ vol = 4

\* current_day is behind the calendar date
Lagging == current_day < Today(now)

\* C19: current_day is never more than one day ahead of the calendar date
\* and never decreases; it changes only by one day, from a state in which
\* now is after the Isha instant of current_day.  While current_day is
\* behind the calendar date, the scheduling that follows the successful
\* fetch registers no event, the polling loop exits at its first check with
\* nothing run and no time passed, and current_day moves on by one day.
C19_CurrentDateBounds ==
    /\ [](current_day <= Today(now) + 1)
    /\ [][/\ current_day' >= current_day
          /\ current_day' # current_day =>
                /\ current_day' = current_day + 1
                /\ dt_isha = PrayerInstant(current_day, prayer_times, "Isha")
                /\ now > dt_isha
          /\ (Lagging /\ pc = "schedule" /\ pc' = "poll") => jobs' = <<>>
          /\ (Lagging /\ pc = "poll") =>
                (pc' = "advance" /\ now' = now /\ jobs' = jobs /\ vol' = vol)
          /\ (Lagging /\ pc = "advance") =>
                (pc' = "fetch" /\ current_day' = current_day + 1)]_vars

\* the process started at 23:30:10 of day 0 and the provider failed once:
\* day 0 was fetched at 00:30:10 of day 1, nothing was registered, and
\* current_day has caught up
C19_Witness ==
    /\ pc = "fetch"
    /\ current_day = 1
    /\ now = DateTime(1, 0, 30) + 10
    /\ done = {0}
    /\ jobs = <<>>
    /\ fails = 0

====
